---- MODULE Spec2Model ----
(***************************************************************************)
(* Puzzle viewer of scripts/randompuzzle.js: the global variables, the     *)
(* page start-up that polls for its libraries, the puzzle loader with its  *)
(* delayed setup move and its material panel, the four navigation          *)
(* handlers and the drag-drop handler, over a small rules engine and a     *)
(* small board widget; and the random-move driver of                       *)
(* scripts/randomgame.js over the same engine.                             *)
(*                                                                         *)
(* The rules engine (chess.js) and the board widget (chessboard.js) are    *)
(* libraries the scripts call; they are modelled on a one-rank board of    *)
(* NSq squares, with the same interfaces the scripts use: positions go in  *)
(* and out of the engine as FEN strings (piece letters, run-length digits  *)
(* for empty squares, a space and the side to move), the widget keeps a    *)
(* position object (square name -> piece code) parsed from the placement   *)
(* field of a FEN, and a move is a string of square names.  A square name  *)
(* is one character here, so a move string has 2 characters where the      *)
(* script's has 4.                                                         *)
(***************************************************************************)
EXTENDS Integers, Sequences, FiniteSets, TLC

\* ------------------------------------------------------------------ bounds
MaxMoves == 2       \* tokens of a puzzle record's Moves string
MaxDrops == 1       \* legal drag-drop moves made in one session
MaxCtorFailures == 1 \* times in a row the widget's constructor throws
HalfMoveLimit == 40 \* moves after which the engine calls the game a draw

\* ------------------------------------------------------- strings and names
Null == [null |-> TRUE]      \* a variable holding null
NullFen == <<"null">>        \* originalFen holding null: no FEN string

SquareNames == <<"a", "b", "c">>     \* the squares of the one-rank board
NSq == Len(SquareNames)
Squares == 1..NSq
Digits == <<"1", "2", "3", "4", "5", "6", "7", "8">>   \* run lengths of empty squares in a FEN
Space == " "

SquareIndex(ch) ==
    IF \E i \in Squares : SquareNames[i] = ch
    THEN CHOOSE i \in Squares : SquareNames[i] = ch
    ELSE 0

DigitValue(ch) ==
    IF \E i \in 1..Len(Digits) : Digits[i] = ch
    THEN CHOOSE i \in 1..Len(Digits) : Digits[i] = ch
    ELSE 0

Upper(t) ==
    CASE t = "p" -> "P" [] t = "n" -> "N" [] t = "b" -> "B"
      [] t = "r" -> "R" [] t = "q" -> "Q" [] t = "k" -> "K"
      [] OTHER -> t

Lower(t) ==
    CASE t = "P" -> "p" [] t = "N" -> "n" [] t = "B" -> "b"
      [] t = "R" -> "r" [] t = "Q" -> "q" [] t = "K" -> "k"
      [] OTHER -> t

PieceTypes == {"p", "n", "b", "r", "q", "k"}
IsWhiteChar(ch) == ch \in {Upper(t) : t \in PieceTypes}
IsBlackChar(ch) == ch \in PieceTypes

\* ------------------------------------------------------------ rules engine
\* A piece as the engine's board() reports it, and the empty square.
NoPiece == [type |-> "-", color |-> "-"]
Piece(t, c) == [type |-> t, color |-> c]

PieceOfChar(ch) ==
    IF IsWhiteChar(ch) THEN Piece(Lower(ch), "w") ELSE Piece(ch, "b")

CharOfPiece(p) == IF p.color = "w" THEN Upper(p.type) ELSE p.type

\* The placement field of a FEN, expanded square by square.
RECURSIVE ExpandPlacement(_)
ExpandPlacement(s) ==
    IF s = <<>> THEN <<>>
    ELSE IF DigitValue(Head(s)) > 0
         THEN [i \in 1..DigitValue(Head(s)) |-> NoPiece] \o ExpandPlacement(Tail(s))
         ELSE <<PieceOfChar(Head(s))>> \o ExpandPlacement(Tail(s))

\* Index of the first occurrence of ch in s, or 0.
IndexOf(s, ch) ==
    IF \E i \in 1..Len(s) : s[i] = ch
    THEN CHOOSE i \in 1..Len(s) : s[i] = ch /\ \A j \in 1..(i - 1) : s[j] # ch
    ELSE 0

PlacementField(fen) ==
    IF IndexOf(fen, Space) = 0 THEN fen ELSE SubSeq(fen, 1, IndexOf(fen, Space) - 1)

TurnField(fen) ==
    IF IndexOf(fen, Space) = 0 THEN <<>>
    ELSE SubSeq(fen, IndexOf(fen, Space) + 1, Len(fen))

\* What the engine's constructor accepts; anything else makes it throw.
ValidFen(fen) ==
    /\ fen # NullFen
    /\ \A i \in 1..Len(PlacementField(fen)) :
          \/ DigitValue(PlacementField(fen)[i]) > 0
          \/ IsWhiteChar(PlacementField(fen)[i])
          \/ IsBlackChar(PlacementField(fen)[i])
    /\ Len(ExpandPlacement(PlacementField(fen))) = NSq
    /\ TurnField(fen) \in {<<"w">>, <<"b">>}

\* new Chess(fen), for a fen the constructor accepts.
NewChess(fen) ==
    [board |-> ExpandPlacement(PlacementField(fen)), turn |-> TurnField(fen)[1]]

\* game.fen()
RECURSIVE FenPlacement(_, _)
FenPlacement(b, empties) ==
    IF b = <<>> THEN (IF empties > 0 THEN <<Digits[empties]>> ELSE <<>>)
    ELSE IF Head(b) = NoPiece THEN FenPlacement(Tail(b), empties + 1)
    ELSE (IF empties > 0 THEN <<Digits[empties]>> ELSE <<>>)
         \o <<CharOfPiece(Head(b))>> \o FenPlacement(Tail(b), 0)

Fen(g) == FenPlacement(g.board, 0) \o <<Space, g.turn>>

\* game.turn()
Turn(g) == g.turn

Other(c) == IF c = "w" THEN "b" ELSE "w"

\* Whether the engine finds a legal move from square index f to square index t.
LegalFromTo(g, f, t) ==
    /\ f \in Squares /\ t \in Squares /\ f # t
    /\ g.board[f].color = g.turn
    /\ g.board[t].color # g.turn

\* The engine's position after the move f -> t.
Moved(g, f, t) ==
    [board |-> [g.board EXCEPT ![t] = g.board[f], ![f] = NoPiece],
     turn |-> Other(g.turn)]

\* game.move(token, {sloppy: true}): whether a move string names a legal move.
LegalMove(g, tok) ==
    /\ Len(tok) = 2
    /\ LegalFromTo(g, SquareIndex(tok[1]), SquareIndex(tok[2]))

ApplyMove(g, tok) == Moved(g, SquareIndex(tok[1]), SquareIndex(tok[2]))

\* ------------------------------------------------------------ board widget
\* Piece code of the widget ("wQ", "bP") as a pair <<colour, letter>>.
WidgetCode(ch) == IF IsWhiteChar(ch) THEN <<"w", ch>> ELSE <<"b", Upper(ch)>>

\* chessboard.js fenToObj: only the placement field is read.
RECURSIVE FenToObjFrom(_, _)
FenToObjFrom(s, sq) ==
    IF s = <<>> \/ sq > NSq THEN <<>>
    ELSE IF DigitValue(Head(s)) > 0
         THEN FenToObjFrom(Tail(s), sq + DigitValue(Head(s)))
         ELSE <<<<SquareNames[sq], WidgetCode(Head(s))>>>> \o FenToObjFrom(Tail(s), sq + 1)

FenToObj(fen) ==
    LET pairs == FenToObjFrom(PlacementField(fen), 1)
    IN  {pairs[i] : i \in 1..Len(pairs)}

\* The widget's 'start' position: a king of each side on the outer squares.
StartFenField ==
    <<"K">> \o (IF NSq > 2 THEN <<Digits[NSq - 2]>> ELSE <<>>) \o <<"k">>

StartObj == FenToObj(StartFenField)

\* ------------------------------------------------------------ puzzle data
\* String.prototype.split(" "): always at least one token; "" gives <<"">>.
RECURSIVE Split(_)
Split(str) ==
    IF IndexOf(str, Space) = 0 THEN <<str>>
    ELSE <<SubSeq(str, 1, IndexOf(str, Space) - 1)>>
         \o Split(SubSeq(str, IndexOf(str, Space) + 1, Len(str)))

RECURSIVE Join(_)
Join(toks) ==
    IF Len(toks) = 0 THEN <<>>
    ELSE IF Len(toks) = 1 THEN toks[1]
    ELSE toks[1] \o <<Space>> \o Join(Tail(toks))

\* The tokens a Moves field is made of: every move string from one square
\* to another, one string that never names a legal move and the empty token.
Tokens ==
    {<<>>, <<SquareNames[1], SquareNames[1]>>}
    \cup {<<SquareNames[m[1]], SquareNames[m[2]]>> :
             m \in {x \in Squares \X Squares : x[1] # x[2]}}

MovesStrings == {Join(ts) : ts \in UNION {[1..n -> Tokens] : n \in 1..MaxMoves}}

\* Starting positions of the records: a white queen on the first square and a
\* black pawn on the last, either side to move (the engine's rules do not
\* depend on which squares they are).
PuzzleFens ==
    {<<"Q">> \o (IF NSq > 2 THEN <<Digits[NSq - 2]>> ELSE <<>>) \o <<"p", Space, t>> :
        t \in {"w", "b"}}

\* A FEN field the engine's constructor rejects.
BadFen == <<"x">>

\* A field the record does not have.
Missing == <<"undefined">>

\* puzzles.json: records {FEN, Moves}, among them one with a FEN the engine
\* rejects and records without a Moves field.
Puzzles ==
    [FEN : PuzzleFens, Moves : MovesStrings]
    \cup [FEN : {BadFen}, Moves : {<<>>}]
    \cup [FEN : PuzzleFens, Moves : {Missing}]

\* --------------------------------------------------------------- the state
VARIABLES
    board,              \* the widget: Null or [position, orientation]
    game,               \* the rules object: Null or [board, turn]
    puzzleMoves,        \* the stored move list
    currentMoveIndex,   \* the navigation cursor
    originalFen,        \* the record's FEN, NullFen before a load
    moveInfo,           \* text of #move-info
    disabled,           \* the disabled flag of the four buttons
    setupTimer,         \* whether the 800 ms setup-move timer is pending
    material,           \* the material panel: #material-display and its fields
    initPending,        \* pending calls of initializeChessboard (listener or timer)
    fetchPending,       \* pending timers of fetchRandomPuzzle
    chessboardLib,      \* whether the widget library has loaded (Chessboard defined)
    chessLib,           \* whether the rules library has loaded (Chess defined)
    fetchCalls,         \* how often fetchRandomPuzzle has been invoked
    ctorFailures,       \* how often in a row the widget's constructor has thrown
    pc,                 \* where the page is: "start", "fetching", "loaded", "failed"
    failMode,           \* how the engine reports an illegal move: "throw" or "null"
    drops,              \* legal drag-drop moves made so far
    last                \* the handler that ran last and the path it took

\* The page of scripts/randomgame.js, a page of its own.
VARIABLES
    rgGame,             \* its game: the rules object's position
    rgHistory,          \* the moves its rules object has recorded
    rgBoard,            \* its board: the widget
    rgTimers,           \* pending makeRandomMove callbacks
    rgLast              \* what the last makeRandomMove invocation did

rgVars == <<rgGame, rgHistory, rgBoard, rgTimers, rgLast>>

\* calculateMaterial called on its own.
VARIABLES
    matFen,             \* the FEN string it is given
    matResult           \* what it returned, NoResult before the call

matVars == <<matFen, matResult>>
NoResult == [white |-> -1, black |-> -1]

\* What the page's handlers never assign: the libraries and the counters.
bootVars == <<chessboardLib, chessLib, fetchCalls, ctorFailures>>

vars == <<board, game, puzzleMoves, currentMoveIndex, originalFen, moveInfo,
          disabled, setupTimer, material, initPending, fetchPending, bootVars, pc, failMode, drops, last, rgVars, matVars>>

Buttons == {"start", "prev", "next", "end"}

\* The script's variables as one record, with the outcome of the handler
\* that produced it: path is the branch taken, ret the value returned.
St ==
    [board |-> board, game |-> game, puzzleMoves |-> puzzleMoves,
     currentMoveIndex |-> currentMoveIndex, originalFen |-> originalFen,
     moveInfo |-> moveInfo, disabled |-> disabled, setupTimer |-> setupTimer,
     material |-> material, initPending |-> initPending,
     fetchPending |-> fetchPending,
     path |-> "none", ret |-> "undefined"]

Store(s, op) ==
    /\ board' = s.board
    /\ game' = s.game
    /\ puzzleMoves' = s.puzzleMoves
    /\ currentMoveIndex' = s.currentMoveIndex
    /\ originalFen' = s.originalFen
    /\ moveInfo' = s.moveInfo
    /\ disabled' = s.disabled
    /\ setupTimer' = s.setupTimer
    /\ material' = s.material
    /\ initPending' = s.initPending
    /\ fetchPending' = s.fetchPending
    /\ last' = [op |-> op, path |-> s.path, ret |-> s.ret]

\* board.position(fen)
BoardPosition(s, fen) == [s EXCEPT !.board.position = FenToObj(fen)]

\* puzzleMoves[i], i counted from 0 as in the script: undefined out of range.
Undefined == <<"undefined">>
MoveAt(moves, i) == IF i + 1 \in DOMAIN moves THEN moves[i + 1] ELSE Undefined

\* ------------------------------------------------------------- UI updates
updateButtonStates(s) ==
    [s EXCEPT !.disabled =
        [b \in Buttons |->
            CASE b = "start" -> s.currentMoveIndex = -1
              [] b = "prev" -> s.currentMoveIndex <= -1
              [] b = "next" -> s.currentMoveIndex >= Len(s.puzzleMoves) - 1
              [] b = "end" -> s.currentMoveIndex >= Len(s.puzzleMoves) - 1]]

updateMoveDisplay(s) ==
    updateButtonStates(
        [s EXCEPT !.moveInfo =
            IF s.currentMoveIndex = -1 THEN <<"Position: Starting position">>
            ELSE IF s.currentMoveIndex >= Len(s.puzzleMoves)
                 THEN <<"Position: After all moves">>
                 ELSE <<"Move", s.currentMoveIndex + 1,
                        MoveAt(s.puzzleMoves, s.currentMoveIndex)>>])

\* -------------------------------------------------- engine calls that fail
\* game.move on the stored token at index i (0-based, as in the script):
\* "applied", or the way the failure is reported: "threw" (an exception: the
\* engine's, or the TypeError of a null rules object) or "null" (the
\* failure sentinel, the rules object unchanged).
MoveOutcome(g, tok) ==
    IF g = Null THEN "threw"
    ELSE IF LegalMove(g, tok) THEN "applied"
    ELSE IF failMode = "throw" THEN "threw" ELSE "null"

\* Index of the first move of i..upto the engine does not apply, upto + 1
\* when it applies them all.
RECURSIVE FirstFailure(_, _, _, _)
FirstFailure(g, moves, i, upto) ==
    IF i > upto THEN upto + 1
    ELSE IF LegalMove(g, MoveAt(moves, i))
         THEN FirstFailure(ApplyMove(g, MoveAt(moves, i)), moves, i + 1, upto)
         ELSE i

\* for (i = from; i <= upto; i++) game.move(puzzleMoves[i], {sloppy: true}):
\* the rules object when the loop ends or is left by an exception.
RECURSIVE ReplayLoop(_, _, _, _)
ReplayLoop(g, moves, i, upto) ==
    IF i > upto THEN [game |-> g, threw |-> FALSE]
    ELSE CASE MoveOutcome(g, MoveAt(moves, i)) = "applied" ->
                ReplayLoop(ApplyMove(g, MoveAt(moves, i)), moves, i + 1, upto)
           [] MoveOutcome(g, MoveAt(moves, i)) = "null" ->
                ReplayLoop(g, moves, i + 1, upto)
           [] OTHER -> [game |-> g, threw |-> TRUE]

\* ---------------------------------------------------------------- material
\* The engine's full board, for the material count: BoardSize ranks of
\* BoardSize squares, the ranks of a FEN separated by "/".
BoardSize == 8
Slash == "/"

RECURSIVE SplitOn(_, _)
SplitOn(str, sep) ==
    IF IndexOf(str, sep) = 0 THEN <<str>>
    ELSE <<SubSeq(str, 1, IndexOf(str, sep) - 1)>>
         \o SplitOn(SubSeq(str, IndexOf(str, sep) + 1, Len(str)), sep)

\* new Chess(fen) accepting a FEN of the full board.
ValidFullFen(fen) ==
    /\ fen # NullFen
    /\ LET ranks == SplitOn(PlacementField(fen), Slash)
       IN  /\ Len(ranks) = BoardSize
           /\ \A r \in 1..Len(ranks) :
                 /\ \A i \in 1..Len(ranks[r]) :
                       \/ DigitValue(ranks[r][i]) > 0
                       \/ IsWhiteChar(ranks[r][i])
                       \/ IsBlackChar(ranks[r][i])
                 /\ Len(ExpandPlacement(ranks[r])) = BoardSize
    /\ TurnField(fen) \in {<<"w">>, <<"b">>}

\* game.board(): the rows of the position, each a sequence of pieces and
\* empty squares.
BoardRows(fen) ==
    LET ranks == SplitOn(PlacementField(fen), Slash)
    IN  [r \in 1..Len(ranks) |-> ExpandPlacement(ranks[r])]

\* MATERIAL_VALUES with the king counted as a pawn.
MaterialValuesKingCounted(t) ==
    CASE t = "p" -> 1 [] t = "n" -> 3 [] t = "b" -> 3
      [] t = "r" -> 5 [] t = "q" -> 9 [] t = "k" -> 1

MATERIAL_VALUES(t) ==
    CASE t = "p" -> 1 [] t = "n" -> 3 [] t = "b" -> 3
      [] t = "r" -> 5 [] t = "q" -> 9 [] t = "k" -> 0

\* The inner loop of calculateMaterial from column col on: what the pieces
\* of one row add to whiteMaterial (white TRUE) or to blackMaterial, every
\* piece that is not white counted as black.
RECURSIVE RowMaterial(_, _, _)
RowMaterial(r, col, white) ==
    IF col > Len(r) THEN 0
    ELSE (IF r[col] # NoPiece /\ (r[col].color = "w") = white
          THEN MATERIAL_VALUES(r[col].type) ELSE 0)
         + RowMaterial(r, col + 1, white)

\* The outer loop from row on.
RECURSIVE MaterialScan(_, _, _)
MaterialScan(rows, row, white) ==
    IF row > Len(rows) THEN 0
    ELSE RowMaterial(rows[row], 1, white) + MaterialScan(rows, row + 1, white)

\* calculateMaterial(fen): the constructor's exception is caught and gives
\* zero for both sides.
calculateMaterial(fen) ==
    IF ValidFen(fen) \/ ValidFullFen(fen)
    THEN [white |-> MaterialScan(BoardRows(fen), 1, TRUE),
          black |-> MaterialScan(BoardRows(fen), 1, FALSE)]
    ELSE [white |-> 0, black |-> 0]

\* The shortest move string playMovesAndCalculateMaterial plays: two square
\* names.
MinMoveLength == Len(<<SquareNames[1], SquareNames[1]>>)

\* The loop of playMovesAndCalculateMaterial from token i on (counted from
\* 1): a short token is passed over, an exception of game.move ends the loop.
RECURSIVE PlayMoves(_, _, _)
PlayMoves(g, moveArray, i) ==
    IF i > Len(moveArray) THEN g
    ELSE IF moveArray[i] # <<>> /\ Len(moveArray[i]) >= MinMoveLength
    THEN CASE MoveOutcome(g, moveArray[i]) = "applied" ->
                PlayMoves(ApplyMove(g, moveArray[i]), moveArray, i + 1)
           [] MoveOutcome(g, moveArray[i]) = "null" ->
                PlayMoves(g, moveArray, i + 1)
           [] OTHER -> g
    ELSE PlayMoves(g, moveArray, i + 1)

playMovesAndCalculateMaterial(startFen, moves) ==
    IF ValidFen(startFen)
    THEN calculateMaterial(Fen(PlayMoves(NewChess(startFen), Split(moves), 1)))
    ELSE [white |-> 0, black |-> 0]

\* The panel before the script touches it.
NoPanel ==
    [display |-> "unset", start |-> NoResult, end |-> NoResult,
     diffWhite |-> [plus |-> FALSE, pts |-> 0, class |-> "unset"],
     diffBlack |-> [plus |-> FALSE, pts |-> 0, class |-> "unset"]]

\* Text and class of one difference field: "+" before a positive number.
DiffField(d) ==
    [plus |-> d > 0, pts |-> d,
     class |-> IF d > 0 THEN "positive" ELSE IF d < 0 THEN "negative" ELSE "neutral"]

displayMaterialAnalysis(s, startMaterial, endMaterial, whiteDiff, blackDiff) ==
    [s EXCEPT !.material =
        [display |-> "block", start |-> startMaterial, end |-> endMaterial,
         diffWhite |-> DiffField(whiteDiff), diffBlack |-> DiffField(blackDiff)]]

\* The material analysis of fetchRandomPuzzle.
materialAnalysis(s, puzzle) ==
    LET firstMoveMaterial ==
            playMovesAndCalculateMaterial(puzzle.FEN, Split(puzzle.Moves)[1])
        endMaterial == playMovesAndCalculateMaterial(puzzle.FEN, puzzle.Moves)
    IN  displayMaterialAnalysis(s, firstMoveMaterial, endMaterial,
                                endMaterial.white - firstMoveMaterial.white,
                                endMaterial.black - firstMoveMaterial.black)

\* FEN strings calculateMaterial is given: the standard starting position
\* and positions with some of its ranks emptied or thinned out, and two
\* strings the engine rejects.  RankChoices: what the ranks 8, 7, 2 and 1
\* are drawn from, the ranks between them empty.
StandardRanks ==
    <<<<"r", "n", "b", "q", "k", "b", "n", "r">>,
      <<"p", "p", "p", "p", "p", "p", "p", "p">>,
      <<"8">>, <<"8">>, <<"8">>, <<"8">>,
      <<"P", "P", "P", "P", "P", "P", "P", "P">>,
      <<"R", "N", "B", "Q", "K", "B", "N", "R">>>>

RankChoices ==
    <<{StandardRanks[1], <<"4", "k", "3">>, <<"r", "1", "b", "q", "k", "2", "r">>},
      {StandardRanks[2], <<"8">>, <<"p", "p", "3", "p", "p", "p">>},
      {StandardRanks[7], <<"8">>, <<"P", "1", "P", "2", "P", "P", "P">>},
      {StandardRanks[8], <<"4", "K", "3">>, <<"R", "2", "Q", "K", "2", "R">>}>>

RECURSIVE JoinOn(_, _)
JoinOn(parts, sep) ==
    IF Len(parts) = 0 THEN <<>>
    ELSE IF Len(parts) = 1 THEN parts[1]
    ELSE parts[1] \o <<sep>> \o JoinOn(Tail(parts), sep)

StandardFen == JoinOn(StandardRanks, Slash) \o <<Space, "w">>

MaterialFens ==
    {JoinOn(<<r8, r7, <<"8">>, <<"8">>, <<"8">>, <<"8">>, r2, r1>>, Slash)
         \o <<Space, "w">> :
        r8 \in RankChoices[1], r7 \in RankChoices[2],
        r2 \in RankChoices[3], r1 \in RankChoices[4]}
    \cup {BadFen, JoinOn(Tail(StandardRanks), Slash) \o <<Space, "w">>}

\* -------------------------------------------------------------- navigation
\* goToStart without its board.position(originalFen).
goToStartKeepsBoard(s) ==
    LET s1 == [s EXCEPT !.currentMoveIndex = -1, !.path = "done"]
    IN  IF ~ValidFen(s.originalFen) \/ s.board = Null
        THEN [s1 EXCEPT !.path = "threw",
                        !.game = IF ValidFen(s.originalFen)
                                 THEN NewChess(s.originalFen) ELSE s.game]
        ELSE updateMoveDisplay([s1 EXCEPT !.game = NewChess(s.originalFen)])

goToStart(s) ==
    LET s1 == [s EXCEPT !.currentMoveIndex = -1, !.path = "done"]
    IN  IF ~ValidFen(s.originalFen) \/ s.board = Null
        THEN [s1 EXCEPT !.path = "threw",
                        !.game = IF ValidFen(s.originalFen)
                                 THEN NewChess(s.originalFen) ELSE s.game]
        ELSE updateMoveDisplay(
                BoardPosition([s1 EXCEPT !.game = NewChess(s.originalFen)],
                              s.originalFen))

\* The replay of previousMove and goToEnd, the cursor already set.
ReplayAndShow(s) ==
    IF ~ValidFen(s.originalFen) THEN [s EXCEPT !.path = "threw"]
    ELSE LET r == ReplayLoop(NewChess(s.originalFen), s.puzzleMoves, 0,
                             s.currentMoveIndex)
         IN  IF r.threw \/ s.board = Null
             THEN [s EXCEPT !.game = r.game, !.path = "threw"]
             ELSE updateMoveDisplay(
                     BoardPosition(
                         [s EXCEPT !.game = r.game,
                                   !.path =
                                       IF FirstFailure(NewChess(s.originalFen), s.puzzleMoves,
                                                       0, s.currentMoveIndex)
                                              <= s.currentMoveIndex
                                       THEN "failed" ELSE "done"],
                         Fen(r.game)))

\* previousMove with its guard off by one (>= -1 for > -1).
previousMoveLooseGuard(s) ==
    IF s.currentMoveIndex >= -1
    THEN IF s.currentMoveIndex - 1 = -1
         THEN goToStart([s EXCEPT !.currentMoveIndex = @ - 1])
         ELSE ReplayAndShow([s EXCEPT !.currentMoveIndex = @ - 1])
    ELSE [s EXCEPT !.path = "skipped"]

previousMove(s) ==
    IF s.currentMoveIndex > -1
    THEN IF s.currentMoveIndex - 1 = -1
         THEN goToStart([s EXCEPT !.currentMoveIndex = @ - 1])
         ELSE ReplayAndShow([s EXCEPT !.currentMoveIndex = @ - 1])
    ELSE [s EXCEPT !.path = "skipped"]

\* nextMove with its guard off by one (<= N-1 for < N-1).
nextMoveLooseGuard(s) ==
    IF s.currentMoveIndex <= Len(s.puzzleMoves) - 1
    THEN LET s1 == [s EXCEPT !.currentMoveIndex = @ + 1]
             tok == MoveAt(s.puzzleMoves, s1.currentMoveIndex)
             out == MoveOutcome(s.game, tok)
         IN  CASE out = "applied" ->
                    LET g == ApplyMove(s.game, tok)
                    IN  updateMoveDisplay(
                            BoardPosition([s1 EXCEPT !.game = g, !.path = "done"], Fen(g)))
               [] out = "null" ->
                    updateMoveDisplay(
                        BoardPosition([s1 EXCEPT !.path = "failed"], Fen(s.game)))
               [] OTHER -> [s1 EXCEPT !.path = "threw"]
    ELSE [s EXCEPT !.path = "skipped"]

nextMove(s) ==
    IF s.currentMoveIndex < Len(s.puzzleMoves) - 1
    THEN LET s1 == [s EXCEPT !.currentMoveIndex = @ + 1]
             tok == MoveAt(s.puzzleMoves, s1.currentMoveIndex)
             out == MoveOutcome(s.game, tok)
         IN  CASE out = "applied" ->
                    LET g == ApplyMove(s.game, tok)
                    IN  updateMoveDisplay(
                            BoardPosition([s1 EXCEPT !.game = g, !.path = "done"], Fen(g)))
               [] out = "null" ->
                    updateMoveDisplay(
                        BoardPosition([s1 EXCEPT !.path = "failed"], Fen(s.game)))
               [] OTHER -> [s1 EXCEPT !.path = "threw"]
    ELSE [s EXCEPT !.path = "skipped"]

goToEnd(s) ==
    ReplayAndShow([s EXCEPT !.currentMoveIndex = Len(s.puzzleMoves) - 1])

\* ------------------------------------------------------- setup-move timer
\* The callback without its currentMoveIndex = 0.
setupMoveKeepsCursor(s) ==
    LET s0 == [s EXCEPT !.setupTimer = FALSE]
        out == MoveOutcome(s.game, MoveAt(s.puzzleMoves, 0))
    IN  CASE out = "applied" ->
               LET g == ApplyMove(s.game, MoveAt(s.puzzleMoves, 0))
               IN  updateMoveDisplay(
                       BoardPosition([s0 EXCEPT !.game = g, !.path = "done"], Fen(g)))
          [] out = "null" ->
               updateMoveDisplay(BoardPosition([s0 EXCEPT !.path = "failed"], Fen(s.game)))
          [] OTHER -> [s0 EXCEPT !.currentMoveIndex = -1, !.path = "caught"]

\* The callback of the 800 ms timer of fetchRandomPuzzle.
setupMove(s) ==
    LET s0 == [s EXCEPT !.setupTimer = FALSE]
        out == MoveOutcome(s.game, MoveAt(s.puzzleMoves, 0))
    IN  CASE out = "applied" ->
               LET g == ApplyMove(s.game, MoveAt(s.puzzleMoves, 0))
               IN  updateMoveDisplay(
                       [BoardPosition([s0 EXCEPT !.game = g, !.path = "done"], Fen(g))
                            EXCEPT !.currentMoveIndex = 0])
          [] out = "null" ->
               updateMoveDisplay(
                   [BoardPosition([s0 EXCEPT !.path = "failed"], Fen(s.game))
                        EXCEPT !.currentMoveIndex = 0])
          [] OTHER -> [s0 EXCEPT !.currentMoveIndex = -1, !.path = "caught"]

\* ---------------------------------------------------------------- drag-drop
\* onDrop redrawing the board from the rules object when it rejects a move.
onDropRedraws(s, source, target) ==
    IF s.game = Null THEN [s EXCEPT !.path = "caught", !.ret = "snapback"]
    ELSE IF LegalFromTo(s.game, SquareIndex(source), SquareIndex(target))
    THEN updateMoveDisplay(
            [s EXCEPT !.game = Moved(s.game, SquareIndex(source), SquareIndex(target)),
                      !.path = "done", !.ret = "snapback"])
    ELSE BoardPosition(
            [s EXCEPT !.path = IF failMode = "throw" THEN "caught" ELSE "rejected",
                      !.ret = "snapback"],
            Fen(s.game))

\* config.onDrop(source, target), source and target square names.
onDrop(s, source, target) ==
    IF s.game = Null THEN [s EXCEPT !.path = "caught", !.ret = "snapback"]
    ELSE IF LegalFromTo(s.game, SquareIndex(source), SquareIndex(target))
    THEN updateMoveDisplay(
            [s EXCEPT !.game = Moved(s.game, SquareIndex(source), SquareIndex(target)),
                      !.path = "done", !.ret = "snapback"])
    ELSE [s EXCEPT !.path = IF failMode = "throw" THEN "caught" ELSE "rejected",
                   !.ret = "snapback"]

\* ------------------------------------------------------------------ loader
\* initializeChessboard going on polling after it has created the board.
initializeChessboardKeepsPolling(s, haveChessboard, haveChess, ctorThrows) ==
    LET s0 == [s EXCEPT !.initPending = @ - 1]
    IN  IF ~haveChessboard \/ ~haveChess
        THEN [s0 EXCEPT !.initPending = @ + 1, !.path = "retry"]
        ELSE IF ctorThrows
        THEN [s0 EXCEPT !.material.display = "none",
                        !.initPending = @ + 1, !.path = "caught"]
        ELSE [s0 EXCEPT !.material.display = "none",
                        !.board = [position |-> StartObj, orientation |-> "white"],
                        !.fetchPending = @ + 1,
                        !.initPending = @ + 1,
                        !.path = "done"]

\* One call of initializeChessboard, from the DOMContentLoaded listener or
\* from a timer, which is then no longer pending.  A missing library: a new
\* timer and nothing else.  ctorThrows: the widget's constructor throws, the
\* panel already hidden, and the catch sets a new timer.  Otherwise the
\* board is created and the timer of fetchRandomPuzzle set.
initializeChessboard(s, haveChessboard, haveChess, ctorThrows) ==
    LET s0 == [s EXCEPT !.initPending = @ - 1]
    IN  IF ~haveChessboard \/ ~haveChess
        THEN [s0 EXCEPT !.initPending = @ + 1, !.path = "retry"]
        ELSE IF ctorThrows
        THEN [s0 EXCEPT !.material.display = "none",
                        !.initPending = @ + 1, !.path = "caught"]
        ELSE [s0 EXCEPT !.material.display = "none",
                        !.board = [position |-> StartObj, orientation |-> "white"],
                        !.fetchPending = @ + 1,
                        !.path = "done"]

\* fetchRandomPuzzle with the two orientations exchanged.
loadPuzzleSwapsOrientation(s, puzzle) ==
    LET s1 == [s EXCEPT !.originalFen = puzzle.FEN, !.currentMoveIndex = -1]
    IN  IF ~ValidFen(puzzle.FEN)
        THEN [s1 EXCEPT !.board.position = StartObj, !.path = "caught"]
        ELSE LET g == NewChess(puzzle.FEN)
                 s2 == [s1 EXCEPT !.game = g,
                                  !.board.orientation =
                                      IF Turn(g) = "b" THEN "black" ELSE "white"]
             IN  IF puzzle.Moves = Missing
                 THEN [s2 EXCEPT !.board.position = StartObj, !.path = "caught"]
                 ELSE LET s3 == BoardPosition(
                                   [s2 EXCEPT !.puzzleMoves = Split(puzzle.Moves)],
                                   puzzle.FEN)
                          s4 == [s3 EXCEPT !.setupTimer =
                                               Len(s3.puzzleMoves) > 0
                                                   /\ s3.puzzleMoves[1] # <<>>,
                                           !.path = "done"]
                      IN  materialAnalysis(updateMoveDisplay(s4), puzzle)

\* fetchRandomPuzzle showing the record's FEN before it builds the rules
\* object and the move list, its catch without the fallback.
loadPuzzleShowsFenFirst(s, puzzle) ==
    LET s1 == [s EXCEPT !.originalFen = puzzle.FEN, !.currentMoveIndex = -1]
    IN  IF ~ValidFen(puzzle.FEN)
        THEN [s1 EXCEPT !.path = "caught"]
        ELSE LET g == NewChess(puzzle.FEN)
                 s2 == BoardPosition(
                          [s1 EXCEPT !.game = g,
                                     !.board.orientation =
                                         IF Turn(g) = "b" THEN "white" ELSE "black"],
                          puzzle.FEN)
             IN  IF puzzle.Moves = Missing
                 THEN [s2 EXCEPT !.path = "caught"]
                 ELSE LET s3 == [s2 EXCEPT !.puzzleMoves = Split(puzzle.Moves)]
                          s4 == [s3 EXCEPT !.setupTimer =
                                               Len(s3.puzzleMoves) > 0
                                                   /\ s3.puzzleMoves[1] # <<>>,
                                           !.path = "done"]
                      IN  materialAnalysis(updateMoveDisplay(s4), puzzle)

\* fetchRandomPuzzle once the fetch has delivered the record: the TypeError
\* of a missing Moves field and the constructor's exception on a bad FEN go
\* to the catch, which shows the 'start' position.
loadPuzzle(s, puzzle) ==
    LET s1 == [s EXCEPT !.originalFen = puzzle.FEN, !.currentMoveIndex = -1]
    IN  IF ~ValidFen(puzzle.FEN)
        THEN [s1 EXCEPT !.board.position = StartObj, !.path = "caught"]
        ELSE LET g == NewChess(puzzle.FEN)
                 s2 == [s1 EXCEPT !.game = g,
                                  !.board.orientation =
                                      IF Turn(g) = "b" THEN "white" ELSE "black"]
             IN  IF puzzle.Moves = Missing
                 THEN [s2 EXCEPT !.board.position = StartObj, !.path = "caught"]
                 ELSE LET s3 == BoardPosition(
                                   [s2 EXCEPT !.puzzleMoves = Split(puzzle.Moves)],
                                   puzzle.FEN)
                          s4 == [s3 EXCEPT !.setupTimer =
                                               Len(s3.puzzleMoves) > 0
                                                   /\ s3.puzzleMoves[1] # <<>>,
                                           !.path = "done"]
                      IN  materialAnalysis(updateMoveDisplay(s4), puzzle)

\* fetchRandomPuzzle when the fetch or the JSON parse fails, or when the
\* file has no record to pick: the exception comes before any assignment.
loadFailed(s) ==
    [s EXCEPT !.board.position = StartObj, !.path = "caught"]

\* ------------------------------------------------------ random-move driver
\* scripts/randomgame.js.  new Chess(): the engine's default starting position.
DefaultFen == StartFenField \o <<Space, "w">>

\* game.moves(): the move strings of the legal moves.
Moves(g) ==
    {<<SquareNames[m[1]], SquareNames[m[2]]>> :
        m \in {x \in Squares \X Squares : LegalFromTo(g, x[1], x[2])}}

\* game.isGameOver(): no legal move (mate or stalemate), or a draw by the
\* engine's move-count rule, h the moves the engine has recorded.
IsGameOver(g, h) == Moves(g) = {} \/ Len(h) >= HalfMoveLimit

\* The variables of randomgame.js as one record.
RgSt ==
    [game |-> rgGame, history |-> rgHistory, board |-> rgBoard,
     timers |-> rgTimers,
     last |-> [op |-> "none", gameOver |-> FALSE, scheduled |-> 0]]

RgStore(r) ==
    /\ rgGame' = r.game
    /\ rgHistory' = r.history
    /\ rgBoard' = r.board
    /\ rgTimers' = r.timers
    /\ rgLast' = r.last

\* makeRandomMove scheduling its next invocation before it looks at
\* isGameOver.
makeRandomMoveSchedulesFirst(r, m) ==
    LET r0 == [r EXCEPT !.timers = @ - 1 + 1,
                        !.last = [op |-> "makeRandomMove",
                                  gameOver |-> IsGameOver(r.game, r.history),
                                  scheduled |-> 1]]
    IN  IF IsGameOver(r.game, r.history) THEN r0
        ELSE IF MoveOutcome(r.game, m) = "applied"
        THEN [r0 EXCEPT !.game = ApplyMove(r.game, m),
                        !.history = Append(@, m),
                        !.board.position = FenToObj(Fen(ApplyMove(r.game, m)))]
        ELSE r0

\* makeRandomMove scheduling two further invocations.
makeRandomMoveSchedulesTwice(r, m) ==
    LET r0 == [r EXCEPT !.timers = @ - 1,
                        !.last = [op |-> "makeRandomMove",
                                  gameOver |-> IsGameOver(r.game, r.history),
                                  scheduled |-> 0]]
    IN  IF IsGameOver(r.game, r.history) THEN r0
        ELSE IF MoveOutcome(r.game, m) = "applied"
        THEN [r0 EXCEPT !.game = ApplyMove(r.game, m),
                        !.history = Append(@, m),
                        !.board.position = FenToObj(Fen(ApplyMove(r.game, m))),
                        !.timers = @ + 2,
                        !.last.scheduled = 2]
        ELSE r0

\* One invocation of makeRandomMove from a timer, m the move string
\* possibleMoves[randomIdx] (undefined for an empty list).  The timer that
\* called it is no longer pending; an exception of game.move leaves the
\* callback before board.position and setTimeout.
makeRandomMove(r, m) ==
    LET r0 == [r EXCEPT !.timers = @ - 1,
                        !.last = [op |-> "makeRandomMove",
                                  gameOver |-> IsGameOver(r.game, r.history),
                                  scheduled |-> 0]]
    IN  IF IsGameOver(r.game, r.history) THEN r0
        ELSE IF MoveOutcome(r.game, m) = "applied"
        THEN [r0 EXCEPT !.game = ApplyMove(r.game, m),
                        !.history = Append(@, m),
                        !.board.position = FenToObj(Fen(ApplyMove(r.game, m))),
                        !.timers = @ + 1,
                        !.last.scheduled = 1]
        ELSE r0

\* The page after randomgame.js has run: the rules object and the widget at
\* the starting position, the first timer pending.
RgInit ==
    /\ rgGame = NewChess(DefaultFen)
    /\ rgHistory = <<>>
    /\ rgBoard = [position |-> StartObj, orientation |-> "white"]
    /\ rgTimers = 1
    /\ rgLast = [op |-> "none", gameOver |-> FALSE, scheduled |-> 0]

\* No call of calculateMaterial on its own in the pages' sessions.
MatInit == matFen = NullFen /\ matResult = NoResult

\* ----------------------------------------------------------------- actions
Init ==
    /\ board = Null
    /\ game = Null
    /\ puzzleMoves = <<>>
    /\ currentMoveIndex = -1
    /\ originalFen = NullFen
    /\ moveInfo = <<>>
    /\ disabled = [b \in Buttons |-> FALSE]
    /\ setupTimer = FALSE
    /\ material = NoPanel
    /\ initPending = 1
    /\ fetchPending = 0
    /\ chessboardLib = FALSE
    /\ chessLib = FALSE
    /\ fetchCalls = 0
    /\ ctorFailures = 0
    /\ pc = "start"
    /\ failMode \in {"throw", "null"}
    /\ drops = 0
    /\ last = [op |-> "none", path |-> "none", ret |-> "undefined"]
    /\ RgInit
    /\ MatInit

\* A script tag of one of the two libraries finishes loading.
LoadChessboardLibrary ==
    /\ ~chessboardLib
    /\ chessboardLib' = TRUE
    /\ UNCHANGED <<board, game, puzzleMoves, currentMoveIndex, originalFen, moveInfo,
                   disabled, setupTimer, material, initPending, fetchPending,
                   chessLib, fetchCalls, ctorFailures, pc, failMode, drops, last,
                   rgVars, matVars>>

LoadChessLibrary ==
    /\ ~chessLib
    /\ chessLib' = TRUE
    /\ UNCHANGED <<board, game, puzzleMoves, currentMoveIndex, originalFen, moveInfo,
                   disabled, setupTimer, material, initPending, fetchPending,
                   chessboardLib, fetchCalls, ctorFailures, pc, failMode, drops, last,
                   rgVars, matVars>>

\* The DOMContentLoaded listener or a pending timer calls
\* initializeChessboard; the constructor throws at most MaxCtorFailures
\* times in a row.
InitializeChessboard ==
    /\ initPending > 0
    /\ \E ctorThrows \in (IF chessboardLib /\ chessLib /\ ctorFailures < MaxCtorFailures
                           THEN BOOLEAN ELSE {FALSE}) :
          LET s == initializeChessboard(St, chessboardLib, chessLib, ctorThrows)
          IN  /\ Store(s, "initializeChessboard")
              /\ pc' = IF s.path = "done" THEN "fetching" ELSE pc
              /\ ctorFailures' = CASE s.path = "caught" -> ctorFailures + 1
                                   [] s.path = "done" -> 0
                                   [] OTHER -> ctorFailures
    /\ UNCHANGED <<chessboardLib, chessLib, fetchCalls, failMode, drops, rgVars, matVars>>

\* The timer set by initializeChessboard calls fetchRandomPuzzle, and the
\* fetch delivers a record.
FetchRandomPuzzle ==
    /\ fetchPending > 0
    /\ \E puzzle \in Puzzles :
          LET s == loadPuzzle([St EXCEPT !.fetchPending = @ - 1], puzzle)
          IN  /\ Store(s, "fetchRandomPuzzle")
              /\ pc' = IF s.path = "done" THEN "loaded" ELSE "failed"
    /\ fetchCalls' = fetchCalls + 1
    /\ UNCHANGED <<chessboardLib, chessLib, ctorFailures, failMode, drops, rgVars, matVars>>

FetchFails ==
    /\ fetchPending > 0
    /\ pc' = "failed"
    /\ Store(loadFailed([St EXCEPT !.fetchPending = @ - 1]), "fetchRandomPuzzle")
    /\ fetchCalls' = fetchCalls + 1
    /\ UNCHANGED <<chessboardLib, chessLib, ctorFailures, failMode, drops, rgVars, matVars>>

SetupTimerFires ==
    /\ setupTimer
    /\ Store(setupMove(St), "setupMove")
    /\ UNCHANGED <<pc, failMode, drops, bootVars, rgVars, matVars>>

GoToStart ==
    /\ Store(goToStart(St), "goToStart")
    /\ UNCHANGED <<pc, failMode, drops, bootVars, rgVars, matVars>>

PreviousMove ==
    /\ Store(previousMove(St), "previousMove")
    /\ UNCHANGED <<pc, failMode, drops, bootVars, rgVars, matVars>>

NextMove ==
    /\ Store(nextMove(St), "nextMove")
    /\ UNCHANGED <<pc, failMode, drops, bootVars, rgVars, matVars>>

GoToEnd ==
    /\ Store(goToEnd(St), "goToEnd")
    /\ UNCHANGED <<pc, failMode, drops, bootVars, rgVars, matVars>>

\* The widget calls onDrop, so the widget exists.
OnDrop ==
    /\ board # Null
    /\ \E source \in Squares, target \in Squares :
          LET s == onDrop(St, SquareNames[source], SquareNames[target])
          IN  /\ s.path = "done" => drops < MaxDrops
              /\ drops' = IF s.path = "done" THEN drops + 1 ELSE drops
              /\ Store(s, "onDrop")
    /\ UNCHANGED <<pc, failMode, bootVars, rgVars, matVars>>

Navigate == GoToStart \/ PreviousMove \/ NextMove \/ GoToEnd

Next ==
    \/ LoadChessboardLibrary
    \/ LoadChessLibrary
    \/ InitializeChessboard
    \/ FetchRandomPuzzle
    \/ FetchFails
    \/ SetupTimerFires
    \/ GoToStart
    \/ PreviousMove
    \/ NextMove
    \/ GoToEnd
    \/ OnDrop

Spec == Init /\ [][Next]_vars

\* The viewer without drag-drop: load, timer and the navigation buttons.
NextNav ==
    \/ LoadChessboardLibrary
    \/ LoadChessLibrary
    \/ InitializeChessboard
    \/ FetchRandomPuzzle
    \/ FetchFails
    \/ SetupTimerFires
    \/ GoToStart
    \/ PreviousMove
    \/ NextMove
    \/ GoToEnd

SpecNav == Init /\ [][NextNav]_vars

\* The same with the browser's scheduling of the page's start: a pending
\* call of initializeChessboard (listener or timer) is made, and the pending
\* timer of fetchRandomPuzzle fires and its fetch settles, one way or the
\* other.
SpecNavFair ==
    /\ SpecNav
    /\ WF_vars(InitializeChessboard)
    /\ WF_vars(FetchFails \/ FetchRandomPuzzle)

\* The page of randomgame.js: the puzzle viewer's script is not on it.  Its
\* engine has isGameOver, so it is the one that throws on an illegal move.
InitRandom ==
    /\ board = Null
    /\ game = Null
    /\ puzzleMoves = <<>>
    /\ currentMoveIndex = -1
    /\ originalFen = NullFen
    /\ moveInfo = <<>>
    /\ disabled = [b \in Buttons |-> FALSE]
    /\ setupTimer = FALSE
    /\ material = NoPanel
    /\ initPending = 0
    /\ fetchPending = 0
    /\ chessboardLib = TRUE
    /\ chessLib = TRUE
    /\ fetchCalls = 0
    /\ ctorFailures = 0
    /\ pc = "start"
    /\ failMode = "throw"
    /\ drops = 0
    /\ last = [op |-> "none", path |-> "none", ret |-> "undefined"]
    /\ RgInit
    /\ MatInit

\* A pending timer calls makeRandomMove; Math.random picks any of the moves.
MakeRandomMove ==
    /\ rgTimers > 0
    /\ \E m \in (IF Moves(rgGame) = {} THEN {Undefined} ELSE Moves(rgGame)) :
          RgStore(makeRandomMove(RgSt, m))
    /\ UNCHANGED <<board, game, puzzleMoves, currentMoveIndex, originalFen, moveInfo,
                   disabled, setupTimer, material, initPending, fetchPending,
                   bootVars, pc, failMode, drops, last, matVars>>

NextRandom == MakeRandomMove

SpecRandom == InitRandom /\ [][NextRandom]_vars

\* calculateMaterial as a function of its argument: any of the FEN strings,
\* and the call.
InitMaterial ==
    /\ board = Null
    /\ game = Null
    /\ puzzleMoves = <<>>
    /\ currentMoveIndex = -1
    /\ originalFen = NullFen
    /\ moveInfo = <<>>
    /\ disabled = [b \in Buttons |-> FALSE]
    /\ setupTimer = FALSE
    /\ material = NoPanel
    /\ initPending = 0
    /\ fetchPending = 0
    /\ chessboardLib = TRUE
    /\ chessLib = TRUE
    /\ fetchCalls = 0
    /\ ctorFailures = 0
    /\ pc = "start"
    /\ failMode = "throw"
    /\ drops = 0
    /\ last = [op |-> "none", path |-> "none", ret |-> "undefined"]
    /\ RgInit
    /\ matFen \in MaterialFens
    /\ matResult = NoResult

CalculateMaterial ==
    /\ matResult = NoResult
    /\ matResult' = calculateMaterial(matFen)
    /\ UNCHANGED <<board, game, puzzleMoves, currentMoveIndex, originalFen, moveInfo,
                   disabled, setupTimer, material, initPending, fetchPending,
                   bootVars, pc, failMode, drops, last, rgVars, matFen>>

NextMaterial == CalculateMaterial

SpecMaterial == InitMaterial /\ [][NextMaterial]_vars

\* ================================================================== claims
Loaded == pc = "loaded"

\* The script's variables a handler can change.
progVars == <<board, game, puzzleMoves, currentMoveIndex, originalFen, moveInfo,
              disabled, setupTimer, material, initPending, fetchPending>>

\* The position object the widget shows for the rules object g.
ShownOf(g) == FenToObj(Fen(g))

\* The rules object the replay loop of previousMove and goToEnd leaves for
\* the current cursor.
ReplayedGame ==
    ReplayLoop(NewChess(originalFen), puzzleMoves, 0, currentMoveIndex).game

\* C1: once a puzzle has loaded, under every interleaving of the navigation
\* handlers and the setup-move timer, the displayed position is the replay of
\* solutionMoves[0..currentMoveIndex] against the original starting position.
C1_DisplayIsReplay ==
    Loaded => board.position = ShownOf(ReplayedGame)

\* C2: the cursor is always an integer in [-1, N-1], N the length of the
\* stored move list.
C2_CursorInRange ==
    /\ currentMoveIndex \in Int
    /\ -1 <= currentMoveIndex
    /\ currentMoveIndex <= Len(puzzleMoves) - 1

\* C2's case: a two-move puzzle, the timer fired and nextMove stepped the
\* cursor to N-1.
C2_Witness ==
    /\ Loaded
    /\ Len(puzzleMoves) = MaxMoves
    /\ ~setupTimer
    /\ last.op = "nextMove" /\ last.path = "done"
    /\ currentMoveIndex = Len(puzzleMoves) - 1

\* A step of the navigation handler op that entered its guarded body.
NavStep(op) == Loaded /\ last'.op = op /\ last'.path # "skipped"

\* C3: for every cursor value c in [0, N-1], the position nextMove reaches
\* step by step from cursor -1 is the position the replay of moves 0..c from
\* the original starting position gives (as previousMove and goToEnd replay):
\* a nextMove from a state that agrees with the replay ends in one that does.
C3_IncrementalEqualsReplay ==
    [][(NavStep("nextMove") /\ game = ReplayedGame) => game' = ReplayedGame']_vars

\* Whether the handler that just ran had a move of the list refused.
MoveFailed == last'.path \in {"threw", "failed"}

\* C4: when the engine refuses a move during nextMove, previousMove or
\* goToEnd, the cursor afterwards is the index of the last move applied before
\* the failure and the displayed position is the rules object's position.
C4_FailureKeepsLastGood ==
    [][/\ (NavStep("nextMove") /\ MoveFailed) =>
            /\ currentMoveIndex' = currentMoveIndex
            /\ board'.position = ShownOf(game')
       /\ (Loaded /\ last'.op \in {"previousMove", "goToEnd"} /\ MoveFailed) =>
            /\ currentMoveIndex' =
                  FirstFailure(NewChess(originalFen), puzzleMoves, 0,
                               Len(puzzleMoves) - 1) - 1
            /\ board'.position = ShownOf(game')]_vars

\* C5: when the setup move fails as the setup timer fires, the cursor is -1
\* afterwards and nothing is thrown out of the callback, whether the engine
\* throws or returns its failure sentinel.
C5_SetupFailureLeavesStart ==
    [][(setupTimer /\ last'.op = "setupMove"
            /\ ~LegalMove(game, MoveAt(puzzleMoves, 0)))
        => (currentMoveIndex' = -1 /\ last'.path # "threw")]_vars

\* The rules object right after the setup move of the loaded record.
AfterSetup == ApplyMove(NewChess(originalFen), MoveAt(puzzleMoves, 0))

\* The three stages of C6; legalOnly restricts the timer and the nextMove
\* stage to moves the engine accepts.
C6_Stages(legalOnly) ==
    /\ (pc = "fetching" /\ pc' = "loaded") =>
          /\ currentMoveIndex' = -1
          /\ board'.position = FenToObj(originalFen')
    /\ (/\ setupTimer /\ last.op = "fetchRandomPuzzle" /\ last'.op = "setupMove"
        /\ legalOnly => LegalMove(game, MoveAt(puzzleMoves, 0))) =>
          /\ game' = AfterSetup
          /\ board'.position = ShownOf(game')
          /\ currentMoveIndex' = 0
          /\ ~setupTimer'
    /\ (/\ last.op = "setupMove" /\ last.path = "done"
        /\ currentMoveIndex = 0 /\ game = AfterSetup
        /\ last'.op = "nextMove"
        /\ legalOnly => LegalMove(game, MoveAt(puzzleMoves, 1))) =>
          /\ currentMoveIndex' = 1
          /\ game' = ApplyMove(game, MoveAt(puzzleMoves, 1))
          /\ board'.position = ShownOf(game')

\* C6 as stated: after a successful load the cursor is -1 and the starting
\* position is displayed; the timer firing with no user action in between
\* applies move 0 once, displays the result and sets the cursor to 0; a
\* following nextMove applies move 1 and sets the cursor to 1.
C6_SetupThenNextAlways == [][C6_Stages(FALSE)]_vars

\* C6 amended: the same, for a setup move that is legal in the starting
\* position and a move 1 that exists and is legal after it.
C6_SetupThenNext == [][C6_Stages(TRUE)]_vars

\* C6's case: the timer fired untouched, then nextMove applied move 1.
C6_Witness ==
    /\ Loaded /\ ~setupTimer
    /\ last.op = "nextMove" /\ last.path = "done"
    /\ currentMoveIndex = 1
    /\ LegalMove(NewChess(originalFen), MoveAt(puzzleMoves, 0))
    /\ LegalMove(AfterSetup, MoveAt(puzzleMoves, 1))
    /\ game = ApplyMove(AfterSetup, MoveAt(puzzleMoves, 1))
    /\ board.position = ShownOf(game)

\* C7: previousMove at cursor -1 changes nothing: cursor, rules object,
\* displayed position, move-status text and button states stay as they were.
C7_PreviousMoveAtStartIsNoOp ==
    [][(last'.op = "previousMove" /\ currentMoveIndex = -1)
        => UNCHANGED progVars]_vars

\* C7's case: previousMove ran on a loaded puzzle and took no step.
C7_Witness ==
    /\ Loaded /\ last.op = "previousMove" /\ last.path = "skipped"
    /\ currentMoveIndex = -1 /\ game # Null

\* C8: nextMove at cursor N-1 changes nothing and applies no move.
C8_NextMoveAtEndIsNoOp ==
    [][(last'.op = "nextMove" /\ currentMoveIndex = Len(puzzleMoves) - 1)
        => UNCHANGED progVars]_vars

\* C8's case: nextMove ran at the last move of a loaded puzzle.
C8_Witness ==
    /\ Loaded /\ last.op = "nextMove" /\ last.path = "skipped"
    /\ currentMoveIndex = Len(puzzleMoves) - 1
    /\ Len(puzzleMoves) = MaxMoves

\* What C9 compares: displayed position, cursor and rules object.
Shown(s) == <<s.board.position, s.currentMoveIndex, s.game>>

\* C9: from any state after a load, goToStart; goToEnd; goToStart leaves the
\* displayed position, the cursor and the rules object a single goToStart
\* leaves.
C9_StartEndStart ==
    Loaded => Shown(goToStart(goToEnd(goToStart(St)))) = Shown(goToStart(St))

\* C9's case: goToStart has run on a puzzle whose end position differs from
\* its starting position.
C9_Witness ==
    /\ Loaded /\ last.op = "goToStart"
    /\ goToEnd(St).path = "done"
    /\ goToEnd(St).board.position # board.position
    /\ Shown(goToStart(goToEnd(St))) = Shown(St)

\* C10: a drag-drop the engine rejects, or made while there is no rules
\* object, returns 'snapback' and changes nothing: every onDrop returns
\* 'snapback', and unless it applies a legal move of the rules object it
\* leaves the script's variables as they were.
C10_IllegalDropChangesNothing ==
    [][last'.op = "onDrop" =>
          /\ last'.ret = "snapback"
          /\ \/ /\ game # Null
                /\ \E f \in Squares, t \in Squares :
                      LegalFromTo(game, f, t) /\ game' = Moved(game, f, t)
             \/ UNCHANGED progVars]_vars

\* C10's case: a rejected drop on a loaded puzzle whose rules object is ahead
\* of the board.
C10_Witness ==
    /\ Loaded /\ last.op = "onDrop" /\ last.path \in {"caught", "rejected"}
    /\ last.ret = "snapback"
    /\ board.position # ShownOf(game)

\* The disabled flags updateButtonStates computes for the current cursor.
ButtonsForCursor ==
    [b \in Buttons |->
        CASE b = "start" -> currentMoveIndex = -1
          [] b = "prev" -> currentMoveIndex <= -1
          [] b = "next" -> currentMoveIndex >= Len(puzzleMoves) - 1
          [] b = "end" -> currentMoveIndex >= Len(puzzleMoves) - 1]

\* C11: in every state after a puzzle load, after every navigation operation
\* and after the setup timer fired, 'start' is disabled iff the cursor is -1,
\* 'prev' iff it is <= -1, and 'next' and 'end' iff it is >= N-1.
C11_ButtonsFollowCursor ==
    Loaded => disabled = ButtonsForCursor

\* A step in which makeRandomMove ran: each invocation uses up its timer or
\* records a move, so it changes the page's variables.
RandomMoveStep == rgVars' # rgVars

\* C12: an invocation of makeRandomMove that starts with isGameOver() false
\* applies exactly one legal move (the engine's move count grows by 1), shows
\* the new position and schedules exactly one further invocation; one that
\* starts with isGameOver() true applies no move and schedules nothing.
C12_OneMovePerInvocation ==
    [][RandomMoveStep =>
        IF ~IsGameOver(rgGame, rgHistory)
        THEN /\ Len(rgHistory') = Len(rgHistory) + 1
             /\ SubSeq(rgHistory', 1, Len(rgHistory)) = rgHistory
             /\ rgHistory'[Len(rgHistory')] \in Moves(rgGame)
             /\ rgGame' = ApplyMove(rgGame, rgHistory'[Len(rgHistory')])
             /\ rgBoard'.position = ShownOf(rgGame')
             /\ rgLast'.scheduled = 1
             /\ rgTimers' = rgTimers - 1 + 1
        ELSE /\ rgHistory' = rgHistory
             /\ rgGame' = rgGame
             /\ rgBoard' = rgBoard
             /\ rgLast'.scheduled = 0
             /\ rgTimers' = rgTimers - 1]_vars

\* C12's case: moves were made and then an invocation found the game over
\* with no legal move left.
C12_Witness ==
    /\ rgLast.op = "makeRandomMove" /\ rgLast.gameOver
    /\ Len(rgHistory) > 1
    /\ Moves(rgGame) = {}
    /\ rgBoard.position = ShownOf(rgGame)
    /\ rgTimers = 0

\* C13: at every moment at most one makeRandomMove callback is pending, and
\* once an invocation has found isGameOver() true no callback is pending and
\* no move is applied again.
C13_SingleChainHalts ==
    /\ [](rgTimers <= 1 /\ (rgLast.gameOver => rgTimers = 0))
    /\ [][rgLast.gameOver => (rgGame' = rgGame /\ rgHistory' = rgHistory)]_vars

\* C13's case: the chain ran to the engine's draw by move count and halted
\* there with legal moves left.
C13_Witness ==
    /\ rgLast.op = "makeRandomMove" /\ rgLast.gameOver
    /\ Len(rgHistory) = HalfMoveLimit
    /\ Moves(rgGame) # {}
    /\ rgTimers = 0

CountOf(str, ch) == Cardinality({i \in 1..Len(str) : str[i] = ch})

\* The sum C15 states for the FEN letters of one colour: pawn 1, knight 3,
\* bishop 3, rook 5, queen 9, king 0.
StatedSum(str, p, n, b, r, q, k) ==
    1 * CountOf(str, p) + 3 * CountOf(str, n) + 3 * CountOf(str, b)
        + 5 * CountOf(str, r) + 9 * CountOf(str, q) + 0 * CountOf(str, k)

\* C15: for a FEN the engine accepts calculateMaterial returns, for each
\* colour, the sum of the values of that colour's pieces on the board (pawn
\* 1, knight 3, bishop 3, rook 5, queen 9, king 0); for the standard
\* starting position it returns 39 for white and 39 for black.
C15_MaterialIsSumOfValues ==
    (matResult # NoResult /\ ValidFullFen(matFen)) =>
        /\ matResult.white =
              StatedSum(PlacementField(matFen), "P", "N", "B", "R", "Q", "K")
        /\ matResult.black =
              StatedSum(PlacementField(matFen), "p", "n", "b", "r", "q", "k")
        /\ matFen = StandardFen => matResult = [white |-> 39, black |-> 39]

\* C15's case: calculateMaterial has returned for the standard starting
\* position.
C15_Witness ==
    /\ matFen = StandardFen /\ ValidFullFen(matFen)
    /\ matResult = [white |-> 39, black |-> 39]

\* How many squares of the displayed position pos hold the piece code.
ShownCount(pos, code) == Cardinality({x \in pos : x[2] = code})

\* The material of colour c ("w" or "b") in a displayed position, by the
\* stated values.
ShownMaterial(pos, c) ==
    1 * ShownCount(pos, <<c, "P">>) + 3 * ShownCount(pos, <<c, "N">>)
        + 3 * ShownCount(pos, <<c, "B">>) + 5 * ShownCount(pos, <<c, "R">>)
        + 9 * ShownCount(pos, <<c, "Q">>) + 0 * ShownCount(pos, <<c, "K">>)

ShownTally(pos) == [white |-> ShownMaterial(pos, "w"), black |-> ShownMaterial(pos, "b")]

\* The position navigation shows at cursor 0: the replay of move 0.
ShownAtCursorZero ==
    ShownOf(ReplayLoop(NewChess(originalFen), puzzleMoves, 0, 0).game)

\* The two tallies and the differences of the panel, the second tally taken
\* from the displayed position pos.
PanelMatches(pos) ==
    /\ material.display = "block"
    /\ material.start = ShownTally(ShownAtCursorZero)
    /\ material.end = ShownTally(pos)
    /\ material.diffWhite = DiffField(material.end.white - material.start.white)
    /\ material.diffBlack = DiffField(material.end.black - material.start.black)

\* C16: after a puzzle load the panel shows the material of the position
\* after the setup move (the one shown at cursor 0), the material of the
\* position goToEnd shows at cursor N-1, and per side the second minus the
\* first, styled positive, negative or neutral by its sign.
C16_PanelShowsNavigationTallies ==
    Loaded => PanelMatches(goToEnd(St).board.position)

\* A step in which fetchRandomPuzzle fails.
LoadFails == pc = "fetching" /\ pc' = "failed"

NavOps == {"goToStart", "previousMove", "nextMove", "goToEnd"}

\* C17: when the load fails (the fetch or the parse fails, there is no
\* record, or the record's FEN is rejected or its Moves field is missing),
\* nothing is thrown out of fetchRandomPuzzle and the board shows the
\* default starting position; afterwards no timer is pending and no step
\* other than a navigation handler the user invokes changes the board.
C17_FailedLoadFallsBack ==
    /\ [](pc = "failed" => ~setupTimer)
    /\ [][/\ LoadFails =>
               /\ last'.op = "fetchRandomPuzzle" /\ last'.path = "caught"
               /\ board'.position = StartObj
          /\ (pc = "failed" /\ last'.op \notin NavOps) => board' = board]_vars

\* C17's case: the load of a record without a Moves field has failed after
\* the rules object was built from the record's FEN.
C17_Witness ==
    /\ pc = "failed"
    /\ last.op = "fetchRandomPuzzle" /\ last.path = "caught"
    /\ game # Null /\ ValidFen(originalFen)
    /\ board.position = StartObj /\ board.position # FenToObj(originalFen)
    /\ ~setupTimer

LibrariesAvailable == chessboardLib /\ chessLib

\* C18: while one of the two libraries is unavailable, a call of
\* initializeChessboard sets a new timer for itself and creates nothing; at
\* most one call of initializeChessboard is pending at any time and
\* fetchRandomPuzzle is invoked at most once in a session; and once both
\* libraries are available the board is eventually created and
\* fetchRandomPuzzle eventually invoked, that once.
C18_PollsUntilLibrariesLoad ==
    /\ [](/\ initPending <= 1
          /\ initPending + fetchPending + fetchCalls <= 1
          /\ ~LibrariesAvailable =>
                (board = Null /\ initPending = 1 /\ fetchCalls = 0))
    /\ [][(~LibrariesAvailable /\ last'.op = "initializeChessboard") =>
            /\ last'.path = "retry"
            /\ board' = Null
            /\ initPending' = 1 /\ fetchPending' = 0]_vars
    /\ (LibrariesAvailable ~> (board # Null /\ fetchCalls = 1))

\* C18's case: initializeChessboard found a library missing and set a new
\* timer, later both were there, the board was created and fetchRandomPuzzle
\* ran.
C18_Witness ==
    /\ LibrariesAvailable
    /\ board # Null /\ fetchCalls = 1
    /\ initPending = 0 /\ fetchPending = 0
    /\ last.op = "fetchRandomPuzzle"

\* C19: an onDrop, legal or illegal, leaves the session clean: when the
\* displayed position was the rules object's position before the drop, it
\* is so after it (so that navigation after a drop shows the replay of the
\* moves up to the cursor).
C19_DropLeavesCleanState ==
    [][(Loaded /\ last'.op = "onDrop" /\ board.position = ShownOf(game))
        => board'.position = ShownOf(game')]_vars

\* C20: when the setup timer fires after the user has navigated during the
\* delay, from a state in which the rules object holds exactly the moves
\* 0..cursor of a list the engine accepts in full, the rules object still
\* holds exactly the moves 0..cursor afterwards and the timer has not moved
\* the cursor backwards or reset it.
C20_TimerAfterNavigation ==
    [][(/\ Loaded /\ setupTimer /\ last'.op = "setupMove"
        /\ last.op \in NavOps
        /\ FirstFailure(NewChess(originalFen), puzzleMoves, 0, Len(puzzleMoves) - 1)
               = Len(puzzleMoves)
        /\ game = ReplayedGame)
        => (/\ game' = ReplayedGame'
            /\ currentMoveIndex' >= currentMoveIndex)]_vars

====
